---- MODULE Spec2Model ----
(***************************************************************************)
(* xreq: a functional-options HTTP client (src/options.go).                *)
(*                                                                         *)
(* The model follows Client.Do / Client.DoBytes / Client.do step by step   *)
(* for two calls on one Client, together with the objects that Go shares   *)
(* by reference: the array behind Client.opt, a caller's http.Header given *)
(* to WithHeader, a caller's *http.Request given to WithRequest, and the   *)
(* io.Readers captured by body options.  SpecPost adds calls through Post  *)
(* and PostBytes; SpecReplay follows the transport inside c.hc.Do as it    *)
(* reads the request body and the readers req.GetBody returns.             *)
(***************************************************************************)
EXTENDS Integers, Sequences, FiniteSets, TLC

\* ------------------------------------------------------------------ bounds
\* Option values constructed in one run (baseline plus all call sites).
MaxOpts == 2
\* Spare capacity (cap - len) of the slice handed to NewClient.
MaxSpare == 1

\* Invocations of a request's GetBody by the transport in one run.
MaxReplays == 2

\* http.StatusOK
StatusOK == 200

Calls == {"c1", "c2"}

\* --------------------------------------------------------------- options
\* An Option value: the constructor that made it and the parameters its
\* closure captured.  Parameters are names of the inputs defined below.
Opt(op, a, b) == [op |-> op, a |-> a, b |-> b]

NilOpt == Opt("nil", "", "")

\* map[string]string inputs of WithQuery / WithPostForm / WithMultipart,
\* as sets of <<key, value>> pairs with distinct keys.
Params(p) ==
    IF p = "P1" THEN {<<"name", "x y">>, <<"age", "18">>} ELSE {}

\* *http.Cookie inputs of WithAddCookie; "nil" is the nil pointer.
CookieString(c) ==
    CASE c = "sess" -> "session=abc"
      [] c = "user" -> "user=zzz"
      [] OTHER -> ""

\* The url argument: whether http.NewRequestWithContext accepts it, and
\* the pairs of its query component as written (still escaped).
UrlValid(u) == u # ":test"

UrlQuery(u) ==
    CASE u = "/q?name=abc" -> << <<"name", "abc">> >>
      [] u = "/q?name=a&name=x%20y" -> << <<"name", "a">>, <<"name", "x%20y">> >>
      [] OTHER -> << >>

\* ------------------------------------------------------------ net/url
\* url.QueryUnescape / url.QueryEscape on the strings of the model.
Unescape(s) ==
    CASE s = "x%20y" -> "x y"
      [] s = "x+y" -> "x y"
      [] OTHER -> s

Escape(s) == IF s = "x y" THEN "x+y" ELSE s

\* Keys in ascending byte order, as Values.Encode sorts them.
KeyOrder == <<"age", "name">>

EmptyMap == [k \in {} |-> << >>]

\* url.Values.Set / http.Header.Set on a map from key to list of values.
MapSet(m, k, v) == [x \in (DOMAIN m) \cup {k} |-> IF x = k THEN <<v>> ELSE m[x]]

\* url.Values.Add, used by url.ParseQuery.
MapAdd(m, k, v) ==
    [x \in (DOMAIN m) \cup {k} |->
        IF x = k THEN (IF k \in DOMAIN m THEN Append(m[k], v) ELSE <<v>>) ELSE m[x]]

\* req.URL.Query(): the pairs of the url argument parsed into url.Values.
RECURSIVE ParseQuery(_, _)
ParseQuery(pairs, m) ==
    IF pairs = << >> THEN m
    ELSE ParseQuery(Tail(pairs), MapAdd(m, Unescape(pairs[1][1]), Unescape(pairs[1][2])))

\* The pairs key=value of one key, in value order.
RECURSIVE EncodeKey(_, _)
EncodeKey(k, vs) ==
    IF vs = << >> THEN << >>
    ELSE << <<Escape(k), Escape(vs[1])>> >> \o EncodeKey(k, Tail(vs))

\* url.Values.Encode: keys sorted, every value of a key in order.
RECURSIVE EncodeFrom(_, _)
EncodeFrom(m, i) ==
    IF i > Len(KeyOrder) THEN << >>
    ELSE (IF KeyOrder[i] \in DOMAIN m THEN EncodeKey(KeyOrder[i], m[KeyOrder[i]]) ELSE << >>)
         \o EncodeFrom(m, i + 1)

Encode(m) == EncodeFrom(m, 1)

\* for k, v := range params { vals.Set(k, v) }: keys are distinct, so the
\* iteration order of the Go map does not show in the result.
RECURSIVE SetAll(_, _)
SetAll(m, ps) ==
    IF ps = {} THEN m
    ELSE LET p == CHOOSE p \in ps : TRUE
         IN  SetAll(MapSet(m, p[1], p[2]), ps \ {p})

\* textproto.CanonicalMIMEHeaderKey, applied by http.Header.Set.
Canon(k) ==
    CASE k = "x-id" -> "X-Id"
      [] k = "content-type" -> "Content-Type"
      [] OTHER -> k

HeaderSet(h, k, v) == MapSet(h, Canon(k), v)

\* http.Header.Get: the first value of the key, "" when absent.
HeaderGet(h, k) == IF Canon(k) \in DOMAIN h /\ h[Canon(k)] # << >> THEN h[Canon(k)][1] ELSE ""

\* ------------------------------------------------------------ io.Readers
\* A reader: its concrete type, the bytes it was made from (as tokens) and
\* how many of them have been read.  bytes.Buffer, bytes.Reader and
\* strings.Reader are the types setBody recognises; "stream" is any other.
Reader(kind, data) == [kind |-> kind, data |-> data, pos |-> 0]

Unread(s) == SubSeq(s.data, s.pos + 1, Len(s.data))

\* The readers callers hand to body options: WithBodyString / WithBodyBytes
\* build their bytes.Buffer once, when the Option is constructed.  The caller
\* has read the first byte of BR before handing it over.
UserReaders ==
    ("SB" :> Reader("bytes.Buffer", <<"x", "y">>)) @@
    ("ST" :> Reader("stream", <<"z">>)) @@
    ("SR" :> Reader("strings.Reader", <<"j", "k">>)) @@
    ("BR" :> [Reader("bytes.Reader", <<"a", "b">>) EXCEPT !.pos = 1])

Buffered(kind) == kind \in {"bytes.Buffer", "bytes.Reader", "strings.Reader"}

\* ------------------------------------------------------------ http.Request
NoGetBody == [set |-> FALSE, data |-> << >>]

\* http.NewRequestWithContext(context.Background(), http.MethodGet, url, nil)
NewRequest(u) ==
    [method |-> "GET", hdrRef |-> "own", hdr |-> EmptyMap, rawQuery |-> UrlQuery(u),
     body |-> "", clen |-> 0, getBody |-> NoGetBody, ctx |-> "background"]

\* The caller's http.Header given to WithHeader, as first built.
UserHeader0 == HeaderSet(EmptyMap, "x-id", "0")

\* The caller's *http.Request given to WithRequest, as first built.
UserRequest0 == NewRequest("/q?name=abc")

\* The state an option works on: the Options of the call (own request and
\* which request o.Request points to, Values, Err, checkStatus) and the
\* objects reachable from it that other calls can reach too (U, H, src).
Cur(w) == IF w.ref = "U" THEN w.U ELSE w.own

PutCur(w, r) == IF w.ref = "U" THEN [w EXCEPT !.U = r] ELSE [w EXCEPT !.own = r]

Hdr(w) == IF Cur(w).hdrRef = "H" THEN w.H ELSE Cur(w).hdr

PutHdr(w, h) ==
    IF Cur(w).hdrRef = "H" THEN [w EXCEPT !.H = h]
    ELSE PutCur(w, [Cur(w) EXCEPT !.hdr = h])

SetMethod(w, m) == PutCur(w, [Cur(w) EXCEPT !.method = m])

\* setBody(req, body): req.Body is always replaced; ContentLength and GetBody
\* are assigned in the three buffered cases only (the default case is empty).
setBody(w, id) ==
    LET s == w.src[id]
        r == [Cur(w) EXCEPT !.body = id]
    IN  IF Buffered(s.kind)
        THEN PutCur(w, [r EXCEPT !.clen = Len(Unread(s)),
                                 !.getBody = [set |-> TRUE, data |-> Unread(s)]])
        ELSE PutCur(w, r)

\* A reader made inside an option's closure, named after the call and the
\* position of the option that made it.
NewReader(w, id, kind, data) == [w EXCEPT !.src = (id :> Reader(kind, data)) @@ w.src]

\* The tokens of vals.Encode() for a form body.
RECURSIVE FormTokens(_)
FormTokens(pairs) ==
    IF pairs = << >> THEN << >>
    ELSE <<pairs[1][1] \o "=" \o pairs[1][2]>> \o FormTokens(Tail(pairs))

WithHeader(w) == PutCur(w, [Cur(w) EXCEPT !.hdrRef = "H"])

WithSetHeader(w, k, v) == PutHdr(w, HeaderSet(Hdr(w), k, v))

\* o.Request = o.Request.Clone(ctx): a new request with a deep copy of the
\* header and of the URL; Body, GetBody and ContentLength are copied as is.
WithContext(w, ctx) ==
    [w EXCEPT !.own = [Cur(w) EXCEPT !.hdrRef = "own", !.hdr = Hdr(w), !.ctx = ctx],
              !.ref = "own"]

WithMethod(w, m) == SetMethod(w, m)

WithBodyReader(w, ct, id) == setBody(PutHdr(w, HeaderSet(Hdr(w), "Content-Type", ct)), id)

WithQuery(w, p) == [w EXCEPT !.values = SetAll(w.values, Params(p))]

WithQueryValue(w, k, v) == [w EXCEPT !.values = MapSet(w.values, k, v)]

WithPostForm(w, p, id) ==
    LET w1 == SetMethod(w, "POST")
        w2 == PutHdr(w1, HeaderSet(Hdr(w1), "Content-Type", "application/x-www-form-urlencoded"))
        w3 == NewReader(w2, id, "strings.Reader", FormTokens(Encode(SetAll(EmptyMap, Params(p)))))
    IN  setBody(w3, id)

\* json.Marshal fails on a channel ("chan"); any other value is one token.
WithPostJSON(w, v, id) ==
    IF v = "chan"
    THEN [w EXCEPT !.err = <<"json marshal error", "json: unsupported type">>]
    ELSE LET w1 == SetMethod(w, "POST")
             w2 == PutHdr(w1, HeaderSet(Hdr(w1), "Content-Type", "application/json"))
             w3 == NewReader(w2, id, "bytes.Buffer", <<"json:" \o v>>)
         IN  setBody(w3, id)

\* r.AddCookie(c): appends "name=value" to the Cookie header.
WithAddCookie(w, c) ==
    IF c = "nil" THEN w
    ELSE LET cur == HeaderGet(Hdr(w), "Cookie")
         IN  IF cur # ""
             THEN PutHdr(w, HeaderSet(Hdr(w), "Cookie", cur \o "; " \o CookieString(c)))
             ELSE PutHdr(w, HeaderSet(Hdr(w), "Cookie", CookieString(c)))

WithRequest(w) == [w EXCEPT !.ref = "U"]

WithCheckStatus(w, b) == [w EXCEPT !.check = (b = "true")]

\* The fields of the map as one token (their order in the body follows the
\* Go map's iteration order and is not modelled), then the closing boundary.
\* Writes to a bytes.Buffer do not fail, so no error is recorded.
WithMultipart(w, p, id) ==
    LET w1 == PutHdr(w, HeaderSet(Hdr(w), "Content-Type", "multipart/form-data"))
        w2 == SetMethod(w1, "POST")
        w3 == NewReader(w2, id, "bytes.Buffer", <<"fields:" \o p, "--end">>)
    IN  setBody(w3, id)

WithMultipartFile(w, f, p, id) ==
    LET w1 == PutHdr(w, HeaderSet(Hdr(w), "Content-Type", "multipart/form-data"))
        w2 == SetMethod(w1, "POST")
        w3 == NewReader(w2, id, "bytes.Buffer", <<"fields:" \o p, "file:" \o f, "--end">>)
    IN  setBody(w3, id)

\* o(opts): the option's closure run on the state w; id names a reader the
\* closure may create.
Apply(o, w, id) ==
    CASE o.op = "WithHeader" -> WithHeader(w)
      [] o.op = "WithSetHeader" -> WithSetHeader(w, o.a, o.b)
      [] o.op = "WithContext" -> WithContext(w, o.a)
      [] o.op = "WithMethod" -> WithMethod(w, o.a)
      [] o.op = "WithBodyReader" -> WithBodyReader(w, o.a, o.b)
      [] o.op = "WithQuery" -> WithQuery(w, o.a)
      [] o.op = "WithQueryValue" -> WithQueryValue(w, o.a, o.b)
      [] o.op = "WithPostForm" -> WithPostForm(w, o.a, id)
      [] o.op = "WithPostJSON" -> WithPostJSON(w, o.a, id)
      [] o.op = "WithAddCookie" -> WithAddCookie(w, o.a)
      [] o.op = "WithRequest" -> WithRequest(w)
      [] o.op = "WithCheckStatus" -> WithCheckStatus(w, o.a)
      [] o.op = "WithMultipart" -> WithMultipart(w, o.a, id)
      [] o.op = "WithMultipartFile" -> WithMultipartFile(w, o.a, o.b, id)
      [] OTHER -> w

\* ----------------------------------------------------------------- inputs
\* What the transport does with a request: it answers with a status code,
\* or fails without a response.
Answer(code) == [ok |-> TRUE, code |-> code]

Failure == [ok |-> FALSE, code |-> 0]

\* The options, url arguments and entry points a run draws from.  One run
\* draws from one family, so that the families add up instead of multiplying.
Scenario(s) ==
    CASE s = "header" ->
           [opts |-> {Opt("WithHeader", "H", ""), Opt("WithSetHeader", "x-id", "1"),
                      Opt("WithAddCookie", "sess", ""), Opt("WithContext", "ctx1", "")},
            urls |-> {"/q"}, kinds |-> {"Do"}, results |-> {Answer(StatusOK)}]
      [] s = "cookie" ->
           [opts |-> {Opt("WithAddCookie", "sess", ""), Opt("WithAddCookie", "user", ""),
                      Opt("WithAddCookie", "nil", ""), Opt("WithHeader", "H", "")},
            urls |-> {"/q"}, kinds |-> {"Do"}, results |-> {Answer(StatusOK)}]
      [] s = "body" ->
           [opts |-> {Opt("WithBodyReader", "text/plain", "SB"),
                      Opt("WithBodyReader", "application/octet-stream", "ST"),
                      Opt("WithPostForm", "P1", ""), Opt("WithMethod", "PUT", "")},
            urls |-> {"/q"}, kinds |-> {"Do"}, results |-> {Answer(StatusOK), Failure}]
      [] s = "payload" ->
           [opts |-> {Opt("WithPostJSON", "v", ""), Opt("WithMultipart", "P1", ""),
                      Opt("WithMultipartFile", "P1", "hello.txt"),
                      Opt("WithBodyReader", "application/octet-stream", "ST")},
            urls |-> {"/q"}, kinds |-> {"Do"}, results |-> {Answer(StatusOK)}]
      [] s = "query" ->
           [opts |-> {Opt("WithQueryValue", "age", "18"), Opt("WithQuery", "P1", ""),
                      Opt("WithRequest", "U", ""), Opt("WithContext", "ctx1", "")},
            urls |-> {"/q?name=abc", "/q?name=a&name=x%20y"}, kinds |-> {"Do"},
            results |-> {Answer(StatusOK)}]
      [] s = "post" ->
           [opts |-> {Opt("WithMethod", "PUT", ""), Opt("WithBodyReader", "text/plain", "SB")},
            urls |-> {"/q"}, kinds |-> {"Post", "PostBytes", "Do"},
            results |-> {Answer(StatusOK)}]
      [] s = "replay" ->
           [opts |-> {Opt("WithBodyReader", "text/plain", "SB"),
                      Opt("WithBodyReader", "application/json", "BR")},
            urls |-> {"/q"}, kinds |-> {"Do"}, results |-> {Answer(StatusOK)}]
      [] OTHER ->
           [opts |-> {Opt("WithCheckStatus", "true", ""), Opt("WithCheckStatus", "false", ""),
                      Opt("WithPostJSON", "chan", "")},
            urls |-> {"/q", ":test"}, kinds |-> {"Do", "DoBytes"},
            results |-> {Answer(StatusOK), Answer(404), Failure}]

Scenarios == {"header", "cookie", "body", "payload", "query", "status"}

SeqsUpTo(S, n) == UNION {[1..k -> S] : k \in 0..n}

\* The contentType and body arguments of Post / PostBytes.
PostArgs == {<<"application/json", "SR">>}

NoPost == <<"", "">>

IsPost(entry) == entry \in {"Post", "PostBytes"}

\* ropt of Post / PostBytes: WithMethod(http.MethodPost), then
\* WithBodyReader(contentType, body), then a copy of the caller's options.
PostOpts(ct, body, opt) ==
    <<Opt("WithMethod", "POST", ""), Opt("WithBodyReader", ct, body)>> \o opt

\* The method an entry point delegates to: Post to Do, PostBytes to DoBytes.
Delegate(entry) == IF entry \in {"Do", "Post"} THEN "Do" ELSE "DoBytes"

\* The body the server sends with a status code.
ResponseBody(code) == IF code = StatusOK THEN <<"ok">> ELSE <<"hello">>

\* ------------------------------------------------------------------ state
VARIABLES
    scenario,   \* the input family of this run
    left,       \* option values the run may still construct
    backing,    \* the array behind Client.opt, cap(c.opt) long
    optLen,     \* len(c.opt)
    userHdr,    \* the caller's http.Header (H)
    userReq,    \* the caller's *http.Request (U)
    src,        \* the io.Readers, by name
    heap,       \* the readers GetBody has made, in the order made
    got,        \* the invocations of GetBody: by which call, the reader returned
    call        \* per call: position, arguments, locals of Do/DoBytes/do, and a record of what it did

vars == <<scenario, left, backing, optLen, userHdr, userReq, src, heap, got, call>>

NoErr == << >>

NoRet == [resp |-> FALSE, dataNil |-> TRUE, data |-> << >>, code |-> 0, err |-> NoErr]

NoResp == [present |-> FALSE, code |-> 0, read |-> "", closed |-> 0]

Idle ==
    [pc |-> "idle", entry |-> "", post |-> NoPost, given |-> << >>,
     kind |-> "", url |-> "", opt |-> << >>,
     shared |-> FALSE, arr |-> << >>, n |-> 0, i |-> 1,
     own |-> NewRequest(""), ref |-> "own", values |-> EmptyMap, err |-> NoErr, check |-> FALSE,
     resp |-> NoResp, ret |-> NoRet,
     applied |-> << >>, sent |-> << >>, touched |-> {}, attach |-> << >>]

\* NewClient(conf, opt...): c.opt is the caller's slice, spare capacity included.
InitIn(S, spares) ==
    /\ scenario \in S
    /\ \E base \in SeqsUpTo(Scenario(scenario).opts, MaxOpts), spare \in spares :
          /\ backing = base \o [k \in 1..spare |-> NilOpt]
          /\ optLen = Len(base)
          /\ left = MaxOpts - Len(base)
    /\ userHdr = UserHeader0
    /\ userReq = UserRequest0
    /\ src = UserReaders
    /\ heap = << >>
    /\ got = << >>
    /\ call = [c \in Calls |-> Idle]

Init == InitIn(Scenarios, 0..MaxSpare)

\* c.opt as the calls read it.
Baseline == SubSeq(backing, 1, optLen)

\* The Options of call c with the shared objects it can reach.
World(c) ==
    [own |-> call[c].own, ref |-> call[c].ref, values |-> call[c].values,
     err |-> call[c].err, check |-> call[c].check,
     U |-> userReq, H |-> userHdr, src |-> src]

\* The request object o.Request points to: the caller's U, or one only this
\* call holds (made by NewRequest or Clone).
Object(c, ref) == IF ref = "U" THEN "U" ELSE c

\* allOpt[i] as the range loop reads it.
AllOptAt(c, i) == IF call[c].shared THEN backing[i] ELSE call[c].arr[i]

\* The options that call setBody.
BodyOps ==
    {"WithBodyReader", "WithPostForm", "WithPostJSON", "WithMultipart", "WithMultipartFile"}

\* Whether the option's closure writes through o.Request.
Mutates(o) ==
    o.op \in {"WithHeader", "WithSetHeader", "WithMethod", "WithBodyReader", "WithPostForm",
              "WithPostJSON", "WithAddCookie", "WithMultipart", "WithMultipartFile"}
    /\ ~(o.op = "WithPostJSON" /\ o.a = "chan")
    /\ ~(o.op = "WithAddCookie" /\ o.a = "nil")

\* fmt.Errorf("...: %w", err)
Wrap(msg, err) == <<msg>> \o err

\* Do / DoBytes, or Post / PostBytes delegating to them, up to the range
\* loop of do: ropt is built (Post / PostBytes), the request is created, the
\* Options filled in, and allOpt := append(c.opt, opt...) evaluated.  With
\* room behind c.opt, append writes opt into the shared array.
Begin(c) ==
    /\ call[c].pc = "idle"
    /\ c = "c2" => call["c1"].pc # "idle"
    /\ \E entry \in Scenario(scenario).kinds, u \in Scenario(scenario).urls,
          given \in SeqsUpTo(Scenario(scenario).opts, left),
          p \in PostArgs \cup {NoPost} :
          LET kind == Delegate(entry)
              opt == IF IsPost(entry) THEN PostOpts(p[1], p[2], given) ELSE given
          IN
          /\ IsPost(entry) <=> p # NoPost
          /\ left' = left - Len(given)
          /\ IF ~UrlValid(u)
             THEN /\ call' = [call EXCEPT ![c] =
                        [@ EXCEPT !.pc = "done", !.entry = entry, !.post = p, !.given = given,
                                  !.kind = kind, !.url = u, !.opt = opt,
                                  !.ret = [NoRet EXCEPT !.err = Wrap("new request error", <<"parse">>)]]]
                  /\ UNCHANGED backing
             ELSE LET fits == optLen + Len(opt) <= Len(backing)
                  IN  /\ backing' =
                            IF fits
                            THEN [k \in 1..Len(backing) |->
                                    IF k > optLen /\ k <= optLen + Len(opt)
                                    THEN opt[k - optLen] ELSE backing[k]]
                            ELSE backing
                      /\ call' = [call EXCEPT ![c] =
                            [@ EXCEPT !.pc = "loop", !.entry = entry, !.post = p, !.given = given,
                                      !.kind = kind, !.url = u, !.opt = opt,
                                      !.shared = fits,
                                      !.arr = IF fits THEN << >> ELSE Baseline \o opt,
                                      !.n = optLen + Len(opt), !.i = 1,
                                      !.own = NewRequest(u), !.ref = "own",
                                      !.values = ParseQuery(UrlQuery(u), EmptyMap),
                                      !.check = FALSE]]
    /\ UNCHANGED <<heap, got, scenario, optLen, userHdr, userReq, src>>

\* A loop that never looks at opts.Err.
OptionFailedIgnored(w) == FALSE

\* if opts.Err != nil
OptionFailed(w) == w.err # NoErr

\* A loop that runs every option and leaves the error check for later.
AfterOptionRunAll(w) == "loop"

\* Where the loop goes after an option: out of do at once when an error is
\* recorded, on to the next option otherwise.
AfterOption(w) == IF OptionFailed(w) THEN "done" ELSE "loop"

\* One iteration of the range loop: o(opts), then the error check.  (attach
\* notes what was unread in a buffered source when setBody took it.)
ApplyOpt(c) ==
    /\ call[c].pc = "loop"
    /\ call[c].i <= call[c].n
    /\ LET o == AllOptAt(c, call[c].i)
           w == Apply(o, World(c), c \o "." \o ToString(call[c].i))
           seen == IF Mutates(o) THEN {Object(c, call[c].ref)} ELSE {}
       IN  /\ userReq' = w.U
           /\ userHdr' = w.H
           /\ src' = w.src
           /\ call' = [call EXCEPT ![c] =
                 [@ EXCEPT !.own = w.own, !.ref = w.ref, !.values = w.values,
                           !.err = w.err, !.check = w.check,
                           !.applied = Append(@, o),
                           !.touched = @ \cup seen,
                           !.attach = IF o.op \in BodyOps /\ w.err = NoErr
                                         /\ Buffered(w.src[Cur(w).body].kind)
                                      THEN Unread(w.src[Cur(w).body]) ELSE @,
                           !.i = @ + 1,
                           !.pc = AfterOption(w),
                           !.ret = IF AfterOption(w) = "done"
                                   THEN [NoRet EXCEPT !.err = Wrap("option exec error", w.err)]
                                   ELSE NoRet]]
    /\ UNCHANGED <<heap, got, scenario, left, backing, optLen>>

\* opts.Request.URL.RawQuery = opts.Values.Encode(), after the loop.
WriteQuery(c) ==
    /\ call[c].pc = "loop"
    /\ call[c].i > call[c].n
    /\ LET w == World(c)
           w1 == PutCur(w, [Cur(w) EXCEPT !.rawQuery = Encode(w.values)])
       IN  /\ userReq' = w1.U
           /\ call' = [call EXCEPT ![c] =
                 [@ EXCEPT !.own = w1.own, !.pc = "send",
                           !.touched = @ \cup {Object(c, call[c].ref)}]]
    /\ UNCHANGED <<heap, got, scenario, left, backing, optLen, userHdr, src>>

\* What the transport is handed: the request as it is at that moment.
Snapshot(c) ==
    LET w == World(c)
        r == Cur(w)
    IN  [obj |-> Object(c, w.ref), method |-> r.method, header |-> Hdr(w),
         rawQuery |-> r.rawQuery, body |-> r.body,
         bodyData |-> IF r.body = "" THEN << >> ELSE Unread(w.src[r.body]),
         clen |-> r.clen, getBody |-> r.getBody, ctx |-> r.ctx]

\* DoBytes without the deferred Close.
CloseBodyForgotten(resp) == resp

\* defer resp.Body.Close(), run as DoBytes returns.
CloseBody(resp) == [resp EXCEPT !.closed = @ + 1]

\* A status check that does not look at the flag.
StatusFailsUnflagged(check, code) == code # StatusOK

\* if opts.checkStatus && resp.StatusCode != http.StatusOK
StatusFails(check, code) == check /\ code # StatusOK

\* return c.hc.Do(opts.Request): the transport either fails (no response) or
\* sends the request, reading its body to the end, and returns a response.
\* Do returns here; DoBytes goes on to read the response unless err != nil.
Dispatch(c) ==
    /\ call[c].pc = "send"
    /\ \E res \in Scenario(scenario).results :
          LET snap == Snapshot(c)
              ok == res.ok
              code == res.code
              kind == call[c].kind
          IN  /\ src' = IF ok /\ snap.body # ""
                        THEN [src EXCEPT ![snap.body].pos = Len(src[snap.body].data)]
                        ELSE src
              /\ call' = [call EXCEPT ![c] =
                    [@ EXCEPT !.sent = Append(@, snap),
                              !.touched = @ \cup {snap.obj},
                              !.resp = IF ok THEN [NoResp EXCEPT !.present = TRUE, !.code = code]
                                       ELSE NoResp,
                              !.pc = IF ok /\ kind = "DoBytes" THEN "read" ELSE "done",
                              !.ret = IF ok THEN [NoRet EXCEPT !.resp = (kind = "Do")]
                                      ELSE [NoRet EXCEPT !.err = <<"transport error">>]]]
    /\ UNCHANGED <<heap, got, scenario, left, backing, optLen, userHdr, userReq>>

\* The rest of DoBytes: ioutil.ReadAll, the status check, the deferred Close.
ReadBody(c) ==
    /\ call[c].pc = "read"
    /\ \E readOk \in BOOLEAN :
          LET code == call[c].resp.code
              err == IF ~readOk THEN Wrap("read body error", <<"read">>)
                     ELSE IF StatusFails(call[c].check, code)
                          THEN <<"http status code: " \o ToString(code)>>
                          ELSE NoErr
              data == IF readOk THEN ResponseBody(code) ELSE << >>
          IN  call' = [call EXCEPT ![c] =
                 [@ EXCEPT !.pc = "done",
                           !.resp = CloseBody([@ EXCEPT !.read = IF readOk THEN "ok" ELSE "err"]),
                           !.ret = [resp |-> FALSE, dataNil |-> FALSE, data |-> data,
                                    code |-> code, err |-> err]]]
    /\ UNCHANGED <<heap, got, scenario, left, backing, optLen, userHdr, userReq, src>>

Next ==
    \E c \in Calls :
        \/ Begin(c)
        \/ ApplyOpt(c)
        \/ WriteQuery(c)
        \/ Dispatch(c)
        \/ ReadBody(c)

Spec == Init /\ [][Next]_vars

\* --------------------------------------------------- Post and PostBytes
\* Calls through Post / PostBytes (and Do beside them).  They add two options
\* of their own to the caller's, so the slice handed to NewClient is given
\* room for one more than elsewhere.
InitPost == InitIn({"post"}, 0..(MaxSpare + 1))

SpecPost == InitPost /\ [][Next]_vars

\* ------------------------------------------------- the transport, stepwise
\* Inside c.hc.Do the transport reads req.Body piece by piece and may call
\* req.GetBody (on a redirect that keeps the body, or to send again) and
\* read what it returns.

\* A GetBody whose closure looks at the source as it is when called.
ReplayStreamLive(r, srcs) == Reader("bytes.Reader", Unread(srcs[r.body]))

\* The reader one invocation of req.GetBody returns: bytes.NewReader(buf),
\* or a copy of the snapshot; both start at the bytes kept at attach time.
ReplayStream(r, srcs) == Reader("bytes.Reader", r.getBody.data)

\* The transport reads the next piece of req.Body.
ReadPrimary(c) ==
    /\ call[c].pc = "send"
    /\ LET id == Cur(World(c)).body
       IN  /\ id # ""
           /\ Unread(src[id]) # << >>
           /\ src' = [src EXCEPT ![id].pos = @ + 1]
    /\ UNCHANGED <<scenario, left, backing, optLen, userHdr, userReq, heap, got, call>>

\* The transport calls req.GetBody().
GetBody(c) ==
    /\ call[c].pc = "send"
    /\ Cur(World(c)).getBody.set
    /\ Len(got) < MaxReplays
    /\ heap' = Append(heap, ReplayStream(Cur(World(c)), src))
    /\ got' = Append(got, [of |-> c, h |-> Len(heap) + 1, want |-> call[c].attach, read |-> 0])
    /\ UNCHANGED <<scenario, left, backing, optLen, userHdr, userReq, src, call>>

\* The transport reads the next piece of the k-th reader GetBody returned.
ReadReplay(k) ==
    /\ call[got[k].of].pc = "send"
    /\ Unread(heap[got[k].h]) # << >>
    /\ heap' = [heap EXCEPT ![got[k].h].pos = @ + 1]
    /\ got' = [got EXCEPT ![k].read = @ + 1]
    /\ UNCHANGED <<scenario, left, backing, optLen, userHdr, userReq, src, call>>

InitReplay == InitIn({"replay"}, {0})

\* Calls of Do with the transport's steps between WriteQuery and the return.
NextReplay ==
    \/ \E c \in Calls :
          \/ Begin(c)
          \/ ApplyOpt(c)
          \/ WriteQuery(c)
          \/ ReadPrimary(c)
          \/ GetBody(c)
          \/ Dispatch(c)
    \/ \E k \in 1..Len(got) : ReadReplay(k)

SpecReplay == InitReplay /\ [][NextReplay]_vars

\* ----------------------------------------------------------------- claims
\* The options call c was given: the baseline, then its own.
Intended(c) == Baseline \o call[c].opt

Started(c) == call[c].pc # "idle" /\ UrlValid(call[c].url)

LoopDone(c) == Started(c) /\ call[c].err = NoErr /\ call[c].pc \in {"send", "read", "done"}

IsPrefix(s, t) == Len(s) <= Len(t) /\ s = SubSeq(t, 1, Len(s))

\* C1: the options applied to a call's Options are the baseline options in
\* order followed by the call-site options in order: at every moment the
\* applied options are a prefix of that sequence, and all of it once the
\* loop has ended without an error.
C1_AppliedInOrder ==
    \A c \in Calls :
        Started(c) =>
            /\ IsPrefix(call[c].applied, Intended(c))
            /\ LoopDone(c) => call[c].applied = Intended(c)

\* C2: once an option has recorded an error in Options.Err the call is over:
\* nothing was or will be handed to the transport, Do returns no response,
\* DoBytes returns nil data, and the returned error wraps the recorded one.
C2_ErrorStopsCall ==
    \A c \in Calls :
        call[c].err # NoErr =>
            /\ call[c].pc = "done"
            /\ call[c].sent = << >>
            /\ ~call[c].resp.present
            /\ ~call[c].ret.resp
            /\ call[c].ret.dataNil /\ call[c].ret.data = << >>
            /\ call[c].ret.err = <<"option exec error">> \o call[c].err

C2_Witness ==
    \E c \in Calls :
        /\ call[c].kind = "DoBytes"
        /\ call[c].pc = "done"
        /\ call[c].err = <<"json marshal error", "json: unsupported type">>
        /\ Len(call[c].applied) >= 1

\* The options whose closure records an error.
Fails(o) == o.op = "WithPostJSON" /\ o.a = "chan"

\* C3 as stated: an option that records an error does not halt its
\* siblings; every option after it is applied before the call fails.
C3_SiblingsStillRun ==
    \A c \in Calls :
        (call[c].pc = "done" /\ call[c].err # NoErr) => Len(call[c].applied) = call[c].n

\* C3 as amended: an option that records an error halts the loop.  It is
\* the last option applied, none before it failed, the options after it
\* are never applied, and the call fails with that error without a dispatch.
C3_FirstErrorHalts ==
    \A c \in Calls :
        call[c].err # NoErr =>
            /\ call[c].pc = "done"
            /\ call[c].applied # << >>
            /\ Fails(call[c].applied[Len(call[c].applied)])
            /\ \A k \in 1..(Len(call[c].applied) - 1) : ~Fails(call[c].applied[k])
            /\ call[c].i = Len(call[c].applied) + 1
            /\ call[c].sent = << >>
            /\ call[c].ret.err = <<"option exec error">> \o call[c].err

C3_Witness ==
    \E c \in Calls :
        /\ call[c].pc = "done"
        /\ call[c].err # NoErr
        /\ Len(call[c].applied) < call[c].n
        /\ ~call[c].shared
        /\ Fails(call[c].arr[Len(call[c].applied)])
        /\ call[c].arr[call[c].n].op = "WithCheckStatus"

\* The flag the applied options leave: the last WithCheckStatus, else false.
RECURSIVE LastCheck(_, _)
LastCheck(opts, flag) ==
    IF opts = << >> THEN flag
    ELSE LastCheck(Tail(opts),
                   IF opts[1].op = "WithCheckStatus" THEN opts[1].a = "true" ELSE flag)

StatusError(code) == <<"http status code: " \o ToString(code)>>

IsStatusError(e) == \E code \in {StatusOK, 404} : e = StatusError(code)

\* C4: DoBytes returns the error "http status code: N" exactly when the
\* transport returned a response, the body was read without error, the last
\* WithCheckStatus applied set the flag (default false) and N is not 200,
\* and it then still returns the body and N.  Do never returns that error.
C4_StatusError ==
    \A c \in Calls :
        call[c].pc = "done" =>
            IF call[c].kind = "DoBytes"
            THEN /\ IsStatusError(call[c].ret.err) <=>
                        /\ call[c].resp.present
                        /\ call[c].resp.read = "ok"
                        /\ LastCheck(call[c].applied, FALSE)
                        /\ call[c].resp.code # StatusOK
                 /\ IsStatusError(call[c].ret.err) =>
                        /\ call[c].ret.err = StatusError(call[c].resp.code)
                        /\ call[c].ret.code = call[c].resp.code
                        /\ ~call[c].ret.dataNil
                        /\ call[c].ret.data = ResponseBody(call[c].resp.code)
            ELSE ~IsStatusError(call[c].ret.err)

C4_Witness ==
    \E c \in Calls :
        /\ call[c].kind = "DoBytes" /\ call[c].pc = "done"
        /\ call[c].ret.err = StatusError(404)
        /\ call[c].ret.data = <<"hello">> /\ call[c].ret.code = 404
        /\ Len(call[c].applied) = 2
        /\ \E d \in Calls :
              /\ call[d].kind = "Do" /\ call[d].pc = "done" /\ call[d].check
              /\ call[d].resp.code = 404 /\ call[d].ret.resp

\* The key-to-values map the query options build: the parameters of the url
\* argument, then every WithQuery / WithQueryValue write in order, a write
\* leaving its key with the one value written.
RECURSIVE QueryFold(_, _)
QueryFold(opts, m) ==
    IF opts = << >> THEN m
    ELSE QueryFold(Tail(opts),
            CASE opts[1].op = "WithQueryValue" ->
                    [k \in DOMAIN m \cup {opts[1].a} |->
                        IF k = opts[1].a THEN <<opts[1].b>> ELSE m[k]]
              [] opts[1].op = "WithQuery" ->
                    [k \in DOMAIN m \cup {p[1] : p \in Params(opts[1].a)} |->
                        IF \E p \in Params(opts[1].a) : p[1] = k
                        THEN <<(CHOOSE p \in Params(opts[1].a) : p[1] = k)[2]>>
                        ELSE m[k]]
              [] OTHER -> m)

\* C5: the query of every dispatched request is the encoding of the map
\* that starts from the query parameters of the url argument and takes the
\* WithQuery / WithQueryValue options the call applied, in order, last
\* write per key winning; parameters no option overwrites are kept.
C5_DispatchedQuery ==
    \A c \in Calls :
        \A k \in 1..Len(call[c].sent) :
            call[c].sent[k].rawQuery =
                Encode(QueryFold(call[c].applied, ParseQuery(UrlQuery(call[c].url), EmptyMap)))

\* The header the header-writing options build from an empty header:
\* WithHeader installs the caller's map as the caller built it, WithSetHeader
\* and the body options replace the value of one key, WithAddCookie appends
\* to the Cookie header, WithRequest brings the header of the caller's
\* request as the caller built it.
RECURSIVE HeaderFold(_, _)
HeaderFold(opts, h) ==
    IF opts = << >> THEN h
    ELSE LET o == opts[1]
         IN  HeaderFold(Tail(opts),
                CASE o.op = "WithHeader" -> UserHeader0
                  [] o.op = "WithRequest" -> UserRequest0.hdr
                  [] o.op = "WithSetHeader" -> HeaderSet(h, o.a, o.b)
                  [] o.op = "WithBodyReader" -> HeaderSet(h, "Content-Type", o.a)
                  [] o.op = "WithPostForm" ->
                        HeaderSet(h, "Content-Type", "application/x-www-form-urlencoded")
                  [] o.op = "WithPostJSON" /\ ~Fails(o) ->
                        HeaderSet(h, "Content-Type", "application/json")
                  [] o.op \in {"WithMultipart", "WithMultipartFile"} ->
                        HeaderSet(h, "Content-Type", "multipart/form-data")
                  [] o.op = "WithAddCookie" /\ o.a # "nil" ->
                        HeaderSet(h, "Cookie",
                            IF "Cookie" \in DOMAIN h
                            THEN h["Cookie"][1] \o "; " \o CookieString(o.a)
                            ELSE CookieString(o.a))
                  [] OTHER -> h)

\* C6: the header of every dispatched request is the last-write-wins fold
\* of the header-writing options the call applied, cookies accumulating.
C6_DispatchedHeader ==
    \A c \in Calls :
        \A k \in 1..Len(call[c].sent) :
            call[c].sent[k].header = HeaderFold(call[c].applied, EmptyMap)

IsSuffix(s, t) == Len(s) <= Len(t) /\ s = SubSeq(t, Len(t) - Len(s) + 1, Len(t))

\* C7: after a sequence of body-attaching options the request describes
\* the body attached last: Content-Type is that option's, a buffered source
\* comes with its length and a replay function over its bytes, and an
\* unbuffered stream comes with length unknown (0) and no replay function.
C7_LastBodyDescribed ==
    \A c \in Calls :
        LET w == World(c)
            r == Cur(w)
            a == call[c].applied
        IN  ( /\ call[c].pc = "loop"
              /\ a # << >>
              /\ \A k \in 1..Len(a) : a[k].op \in BodyOps /\ ~Fails(a[k]) )
            =>
            /\ r.body # ""
            /\ HeaderFold(<<a[Len(a)]>>, EmptyMap) = [x \in {"Content-Type"} |-> Hdr(w)[x]]
            /\ IF Buffered(w.src[r.body].kind)
               THEN /\ r.getBody.set
                    /\ r.clen = Len(r.getBody.data)
                    /\ IsSuffix(r.getBody.data, w.src[r.body].data)
               ELSE /\ ~r.getBody.set
                    /\ r.clen = 0

\* C8: when DoBytes returns after the transport gave it a response, the
\* response body has been closed exactly once, whether the read failed, the
\* status check failed, or neither; a call hands the transport at most one
\* request, and exactly one when the request was created and no option failed.
C8_ClosedOnceSentOnce ==
    \A c \in Calls :
        /\ Len(call[c].sent) <= 1
        /\ call[c].pc = "done" =>
              /\ (call[c].kind = "DoBytes" /\ call[c].resp.present) => call[c].resp.closed = 1
              /\ (Started(c) /\ call[c].err = NoErr) => Len(call[c].sent) = 1
              /\ Len(call[c].sent) = 1 => (Started(c) /\ call[c].err = NoErr)

C8_Witness ==
    /\ \A c \in Calls : call[c].pc = "done" /\ call[c].kind = "DoBytes"
    /\ call["c1"].resp.read = "err" /\ call["c1"].resp.closed = 1
    /\ IsStatusError(call["c2"].ret.err) /\ call["c2"].resp.closed = 1

\* What a dispatched request looks like on the wire.
Wire(snap) == [snap EXCEPT !.obj = ""]

\* C9: an Option value can be used again.  The header map captured by
\* WithHeader stays as the caller built it whatever options run after it,
\* and two calls given the same url and only the baseline options send the
\* same request.
C9_OptionsReusable ==
    /\ userHdr = UserHeader0
    /\ \A c, d \in Calls :
          ( /\ call[c].opt = << >> /\ call[d].opt = << >>
            /\ call[c].url = call[d].url
            /\ call[c].sent # << >> /\ call[d].sent # << >> )
          => Wire(call[c].sent[1]) = Wire(call[d].sent[1])

\* C10: no request object is mutated or dispatched by two calls.
C10_RequestOwnedByOneCall ==
    \A c, d \in Calls : c # d => call[c].touched \cap call[d].touched = {}

\* C11: the array behind Client.opt is read-only after NewClient.  No call
\* writes to it, the slots past len(c.opt) included (they stay as NewClient
\* received them), and for every interleaving the k-th option a call applies
\* is the k-th baseline option or, past the baseline, its own call-site
\* option, never one another call supplied.
C11_BaselineReadOnly ==
    /\ \A k \in (optLen + 1)..Len(backing) : backing[k] = NilOpt
    /\ \A c \in Calls :
          \A k \in 1..Len(call[c].applied) :
              IF k <= optLen
              THEN call[c].applied[k] = backing[k]
              ELSE /\ k - optLen <= Len(call[c].opt)
                   /\ call[c].applied[k] = call[c].opt[k - optLen]

\* What a Post / PostBytes call is to apply: the baseline, set-method-POST,
\* attach-body(contentType, body), then the caller's options as given.
PostIntended(c) ==
    Baseline
    \o <<Opt("WithMethod", "POST", ""), Opt("WithBodyReader", call[c].post[1], call[c].post[2])>>
    \o call[c].given

\* The method the last method-setting option of a sequence leaves.
RECURSIVE LastMethod(_, _)
LastMethod(opts, m) ==
    IF opts = << >> THEN m
    ELSE LastMethod(Tail(opts), IF opts[1].op = "WithMethod" THEN opts[1].a ELSE m)

\* The reader the last WithBodyReader of a sequence attaches.
RECURSIVE LastBody(_, _)
LastBody(opts, b) ==
    IF opts = << >> THEN b
    ELSE LastBody(Tail(opts), IF opts[1].op = "WithBodyReader" THEN opts[1].b ELSE b)

\* C12: Post and PostBytes apply the baseline options, then set-method-POST,
\* then attach-body(contentType, body), then the caller's options in their
\* order; so the request they dispatch has the method and the body of the
\* last method and body option of that sequence (the caller's over POST and
\* body, POST and body over the baseline's).
C12_PostOrder ==
    \A c \in Calls :
        (IsPost(call[c].entry) /\ Started(c)) =>
            /\ IsPrefix(call[c].applied, PostIntended(c))
            /\ LoopDone(c) => call[c].applied = PostIntended(c)
            /\ \A k \in 1..Len(call[c].sent) :
                  /\ call[c].sent[k].method = LastMethod(PostIntended(c), "GET")
                  /\ call[c].sent[k].body = LastBody(PostIntended(c), "")

C12_OverrideReached ==
    \E c \in Calls :
        /\ call[c].entry = "PostBytes" /\ call[c].pc = "done"
        /\ Baseline = <<Opt("WithBodyReader", "text/plain", "SB")>>
        /\ call[c].given = <<Opt("WithMethod", "PUT", "")>>
        /\ call[c].sent # << >>
        /\ call[c].sent[1].method = "PUT" /\ call[c].sent[1].body = "SR"

\* The query map of call c as the claim has it: seeded from the url
\* argument, then the WithQuery / WithQueryValue options applied so far.
QueryOf(c) == QueryFold(call[c].applied, ParseQuery(UrlQuery(call[c].url), EmptyMap))

\* C14: the query map is seeded once from the url argument before any
\* option runs and follows the query options only; after the last option it
\* is written onto the request that is then current.  When WithRequest(req)
\* replaced the request, req itself carries the encoded map once the loop is
\* over (req's own query is gone, the caller can see the change), and the
\* request dispatched is req with that query.
C14_QueryOntoCurrentRequest ==
    \A c \in Calls :
        /\ (Started(c) /\ call[c].pc = "loop") => call[c].values = QueryOf(c)
        /\ (LoopDone(c) /\ call[c].ref = "U") =>
              /\ call[c].pc = "send" => userReq.rawQuery = Encode(QueryOf(c))
              /\ \A k \in 1..Len(call[c].sent) :
                    /\ call[c].sent[k].obj = "U"
                    /\ call[c].sent[k].rawQuery = Encode(QueryOf(c))

\* The same for a call that is alone in having applied WithRequest(req).
C14_AloneWithRequest ==
    \A c \in Calls :
        ( /\ LoopDone(c) /\ call[c].ref = "U"
          /\ \A d \in Calls \ {c} : \A k \in 1..Len(call[d].applied) :
                call[d].applied[k].op # "WithRequest" )
        =>
        /\ call[c].pc = "send" => userReq.rawQuery = Encode(QueryOf(c))
        /\ \A k \in 1..Len(call[c].sent) :
              /\ call[c].sent[k].obj = "U"
              /\ call[c].sent[k].rawQuery = Encode(QueryOf(c))

C14_DiscardReached ==
    \E c \in Calls :
        /\ call[c].url = "/q?name=a&name=x%20y"
        /\ call[c].applied = <<Opt("WithRequest", "U", ""), Opt("WithQueryValue", "age", "18")>>
        /\ call[c].sent # << >>
        /\ call[c].sent[1].rawQuery = << <<"age", "18">>, <<"name", "a">>, <<"name", "x+y">> >>
        /\ userReq.rawQuery = call[c].sent[1].rawQuery
        /\ UserRequest0.rawQuery = << <<"name", "abc">> >>

\* C13: every reader the replay function of a buffered body returns is a
\* new one over exactly the bytes that were unread in the source when the
\* body was attached, however much of the body or of earlier such readers
\* has been read since; it is advanced by its own reads only.
C13_ReplayFresh ==
    \A k \in 1..Len(got) :
        /\ heap[got[k].h].data = got[k].want
        /\ heap[got[k].h].pos = got[k].read
        /\ \A j \in 1..Len(got) : j # k => got[j].h # got[k].h

C13_Witness ==
    \E j, k \in 1..Len(got) :
        LET c == got[k].of
            id == Cur(World(c)).body
        IN  /\ j # k /\ got[j].of = c
            /\ call[c].pc = "send"
            /\ got[k].want # << >>
            /\ Len(got[k].want) < Len(src[id].data)
            /\ Unread(src[id]) = << >>
            /\ got[j].read = Len(got[j].want)
            /\ got[k].read = 0
            /\ Unread(heap[got[k].h]) = got[k].want

====
